---- MODULE Spec2Model ----
(***************************************************************************)
(* Model of the join/exit action helpers                                   *)
(* (balancer-js/src/modules/swaps/joinExit/actions/helpers.ts) and of the  *)
(* simulation dispatcher (Simulation.simulateGeneralisedJoin).             *)
(*                                                                         *)
(* Three specifications share the module:                                  *)
(*   SpecOrder  categorizeActions / batchSwapActions / orderActions        *)
(*   SpecRef    getActionStep / getActionAmount / getActionOutputRef       *)
(*   SpecSim    Simulation.simulateGeneralisedJoin and decodeResult        *)
(***************************************************************************)
EXTENDS Integers, Sequences, FiniteSets, TLC

VARIABLES
  \* ---- ordering and batching (helpers.ts 124-201)
  actions,        \* the Actions[] handed to the function under test
  op,             \* which function was applied last ("none" before any)
  result,         \* the Actions[] it returned
  pass2,          \* batchSwapActions applied to its own output
  \* ---- reference allocation (helpers.ts 15-104)
  initKey,        \* the key counter the run started with
  opRefKey,       \* the key counter threaded through getActionOutputRef
  steps,          \* the ActionSteps passed to getActionOutputRef so far
  refs,           \* the OutputReferences returned so far, one per step
  last,           \* the last helper call: its name, arguments and result
  \* ---- simulation dispatcher (part_001)
  sim             \* the state of one simulateGeneralisedJoin invocation

orderVars == <<actions, op, result, pass2>>
refVars   == <<initKey, opRefKey, steps, refs, last>>
simVars   == <<sim>>
vars      == <<actions, op, result, pass2, initKey, opRefKey, steps, refs, last, sim>>

(***************************************************************************)
(* Bounds                                                                  *)
(***************************************************************************)
\* the longest action list handed to categorizeActions and orderActions
MaxActions == 3
\* the longest action list handed to batchSwapActions and to its second pass
MaxBatchActions == 4
\* the largest key counter a run starts with
MaxInitKey == 5
\* the most steps threaded through getActionOutputRef in one run
MaxSteps == 3
\* token indices range over 0..MaxIndex
MaxIndex == 2
\* the most request paths of one simulateGeneralisedJoin call
MaxPaths == 2
\* the most sub-calls of the simulated multicall
MaxCalls == 2
\* the most output indexes of one simulateGeneralisedJoin call
MaxOutputs == 2
\* the bytes of one ABI word (32 on chain)
WordLen == 2

(***************************************************************************)
(* Actions (types.ts is not part of the sources; the fields are the ones   *)
(* helpers.ts reads: type, hasTokenIn, hasTokenOut, and for a Swap swaps). *)
(* id stands for the identity of the JavaScript object.                    *)
(***************************************************************************)
JoinExitTypes == {"Join", "Exit"}

JoinExitAt(id) ==
  [type : JoinExitTypes, hasTokenIn : BOOLEAN, hasTokenOut : BOOLEAN, id : {id}]

\* A Swap action as its constructor leaves it: one swap step.
SwapAt(id) ==
  [type : {"BatchSwap"}, hasTokenIn : BOOLEAN, hasTokenOut : BOOLEAN,
   isBptIn : BOOLEAN, id : {id}, swaps : {<<id>>}]

ActionAt(id) == JoinExitAt(id) \cup SwapAt(id)

RECURSIVE ActionLists(_)
ActionLists(n) ==
  IF n = 0 THEN {<<>>}
  ELSE LET shorter == ActionLists(n - 1)
       IN shorter \cup
          {Append(l, a) : l \in {s \in shorter : Len(s) = n - 1}, a \in ActionAt(n)}

NoSwap == [none |-> TRUE]

\* helpers.ts 157-158: a swap without tokenIn and not BPT comes from internal
\* balances, a swap with tokenIn or BPT from external balances.
FromInternal(s) == ~s.hasTokenIn /\ ~s.isBptIn

\* Swap.canAddSwap: the funding sources must agree.
canAddSwap(batched, a) == FromInternal(batched) = FromInternal(a)

\* Swap.addSwap: the steps of the new swap join the aggregate.
addSwap(batched, a) == [batched EXCEPT !.swaps = batched.swaps \o a.swaps]

\* Swap.copy: a new object with the same fields.
copy(a) == a

(***************************************************************************)
(* categorizeActions, helpers.ts 124-145                                   *)
(***************************************************************************)
RECURSIVE CategorizeLoop(_, _, _, _, _)
CategorizeLoop(as, i, enterActions, exitActions, middleActions) ==
  IF i > Len(as) THEN enterActions \o middleActions \o exitActions
  ELSE LET a == as[i] IN
    IF a.type = "Exit" \/ a.type = "Join"
    THEN IF a.hasTokenIn
         THEN CategorizeLoop(as, i + 1, Append(enterActions, a), exitActions, middleActions)
         ELSE IF a.hasTokenOut
         THEN CategorizeLoop(as, i + 1, enterActions, Append(exitActions, a), middleActions)
         ELSE CategorizeLoop(as, i + 1, enterActions, exitActions, Append(middleActions, a))
    ELSE CategorizeLoop(as, i + 1, enterActions, exitActions, Append(middleActions, a))

\* categorizeActions without the test of the action's type (helpers.ts 129).
categorizeActionsNoTypeTest(as) ==
  SelectSeq(as, LAMBDA a : a.hasTokenIn)
    \o SelectSeq(as, LAMBDA a : ~a.hasTokenIn /\ ~a.hasTokenOut)
    \o SelectSeq(as, LAMBDA a : ~a.hasTokenIn /\ a.hasTokenOut)

categorizeActions(as) == CategorizeLoop(as, 1, <<>>, <<>>, <<>>)

(***************************************************************************)
(* batchSwapActions, helpers.ts 153-189                                    *)
(***************************************************************************)
RECURSIVE BatchLoop(_, _, _, _)
BatchLoop(allActions, i, orderedActions, batchedSwaps) ==
  IF i > Len(allActions)
  THEN \* helpers.ts 185-186
       IF batchedSwaps # NoSwap /\ Len(batchedSwaps.swaps) = 1
       THEN Append(orderedActions, batchedSwaps)
       ELSE orderedActions
  ELSE LET a == allActions[i] IN
    IF a.type = "BatchSwap"
    THEN IF batchedSwaps = NoSwap
         THEN BatchLoop(allActions, i + 1, orderedActions, copy(a))
         ELSE IF canAddSwap(batchedSwaps, a)
         THEN BatchLoop(allActions, i + 1, orderedActions, addSwap(batchedSwaps, a))
         ELSE BatchLoop(allActions, i + 1, Append(orderedActions, batchedSwaps), copy(a))
    ELSE IF batchedSwaps # NoSwap
         THEN BatchLoop(allActions, i + 1, Append(Append(orderedActions, batchedSwaps), a), NoSwap)
         ELSE BatchLoop(allActions, i + 1, Append(orderedActions, a), NoSwap)

batchSwapActions(allActions) == BatchLoop(allActions, 1, <<>>, NoSwap)

(***************************************************************************)
(* orderActions, helpers.ts 197-201                                        *)
(***************************************************************************)
orderActions(as) == batchSwapActions(categorizeActions(as))

(***************************************************************************)
(* SpecOrder: the functions applied to every bounded action list           *)
(***************************************************************************)
RefIdle == /\ initKey = 0 /\ opRefKey = 0 /\ steps = <<>> /\ refs = <<>>
           /\ last = [fn |-> "none"]

SimIdle == sim = [pc |-> "unused"]

InitOrder ==
  /\ actions \in ActionLists(MaxActions)
  /\ op = "none"
  /\ result = <<>>
  /\ pass2 = <<>>
  /\ RefIdle
  /\ SimIdle

Categorize ==
  /\ op = "none"
  /\ op' = "categorizeActions"
  /\ result' = categorizeActions(actions)
  /\ UNCHANGED <<actions, pass2, refVars, simVars>>

Batch ==
  /\ op = "none"
  /\ op' = "batchSwapActions"
  /\ result' = batchSwapActions(actions)
  /\ UNCHANGED <<actions, pass2, refVars, simVars>>

Order ==
  /\ op = "none"
  /\ op' = "orderActions"
  /\ result' = orderActions(actions)
  /\ UNCHANGED <<actions, pass2, refVars, simVars>>

\* The batcher run on its own output.
BatchAgain ==
  /\ op = "batchSwapActions"
  /\ op' = "batchSwapActions twice"
  /\ pass2' = batchSwapActions(result)
  /\ UNCHANGED <<actions, result, refVars, simVars>>

NextOrder == Categorize \/ Batch \/ Order \/ BatchAgain

SpecOrder == InitOrder /\ [][NextOrder]_vars

\* The same functions over the longer lists the batcher's cases need.
InitBatch ==
  /\ actions \in ActionLists(MaxBatchActions)
  /\ op = "none"
  /\ result = <<>>
  /\ pass2 = <<>>
  /\ RefIdle
  /\ SimIdle

SpecBatch == InitBatch /\ [][NextOrder]_vars

(***************************************************************************)
(* Claims about ordering and batching                                      *)
(***************************************************************************)
IsSwap(a) == a.type = "BatchSwap"

\* The three groups as the partition is described: enter, middle, exit.
IsEnter(a) == a.type \in JoinExitTypes /\ a.hasTokenIn
IsMiddle(a) == IsSwap(a) \/ (a.type \in JoinExitTypes /\ ~a.hasTokenIn /\ ~a.hasTokenOut)
IsExit(a) == a.type \in JoinExitTypes /\ a.hasTokenOut /\ ~a.hasTokenIn
Group(a) == IF IsEnter(a) THEN 1 ELSE IF IsMiddle(a) THEN 2 ELSE 3

\* C1: categorizeActions returns the same actions, none dropped or
\* duplicated, every enter action before every middle action before every
\* exit action, and each group in the order of the input.
C1_StablePartition ==
  op = "categorizeActions" =>
    /\ Len(result) = Len(actions)
    /\ \A k \in 1..Len(actions) :
         /\ Cardinality({j \in 1..Len(result) : result[j] = actions[k]}) = 1
         /\ Cardinality({g \in {1, 2, 3} :
              \/ g = 1 /\ IsEnter(actions[k])
              \/ g = 2 /\ IsMiddle(actions[k])
              \/ g = 3 /\ IsExit(actions[k])}) = 1
    /\ \A i, j \in 1..Len(result) :
         i < j => /\ Group(result[i]) <= Group(result[j])
                  /\ Group(result[i]) = Group(result[j]) => result[i].id < result[j].id

\* An exit action, then a swap carrying both flags, then an enter action:
\* categorizeActions has reordered all three.
C1_Witness ==
  /\ op = "categorizeActions"
  /\ Len(actions) = 3
  /\ IsExit(actions[1])
  /\ IsSwap(actions[2]) /\ actions[2].hasTokenIn /\ actions[2].hasTokenOut
  /\ IsEnter(actions[3])
  /\ result = <<actions[3], actions[2], actions[1]>>

\* The swap steps an element of a batched sequence holds.
StepsOf(a) == IF IsSwap(a) THEN {a.swaps[m] : m \in 1..Len(a.swaps)} ELSE {}

SameAggregate(seq, s, t) ==
  \E j \in 1..Len(seq) : s \in StepsOf(seq[j]) /\ t \in StepsOf(seq[j])

\* The scenario [Join(hasTokenIn), SwapA, SwapB, Exit(hasTokenOut)], A and B
\* with the same funding source.
IsScenario(as) ==
  /\ Len(as) = 4
  /\ as[1].type = "Join" /\ as[1].hasTokenIn
  /\ IsSwap(as[2]) /\ IsSwap(as[3]) /\ FromInternal(as[2]) = FromInternal(as[3])
  /\ as[4].type = "Exit" /\ as[4].hasTokenOut /\ ~as[4].hasTokenIn

C2_Scenario ==
  (op \in {"batchSwapActions", "orderActions"} /\ IsScenario(actions)) =>
    /\ Len(result) = 3
    /\ result[1] = actions[1]
    /\ IsSwap(result[2]) /\ result[2].swaps = <<2, 3>>
    /\ result[3] = actions[4]

C2_NoMergeAcrossJoinExit ==
  op \in {"batchSwapActions", "batchSwapActions twice"} =>
    \A i, j \in 1..Len(actions) :
      (/\ i < j /\ IsSwap(actions[i]) /\ IsSwap(actions[j])
       /\ \E k \in (i + 1)..(j - 1) : ~IsSwap(actions[k]))
      => ~SameAggregate(result, i, j)

C2_AdjacentMerged ==
  op = "batchSwapActions" =>
    \A i \in 1..(Len(actions) - 1) :
      (IsSwap(actions[i]) /\ IsSwap(actions[i + 1]) /\ canAddSwap(actions[i], actions[i + 1]))
      => \E j \in 1..Len(result) :
           /\ {i, i + 1} \subseteq StepsOf(result[j])
           /\ Len(result[j].swaps) >= Len(actions[i].swaps) + Len(actions[i + 1].swaps)

\* C2: batchSwapActions returns two adjacent compatible BatchSwap actions
\* merged into one aggregate holding the steps of both, never merges two
\* BatchSwap actions separated by a Join or Exit, and turns
\* [Join, SwapA, SwapB, Exit] into the three elements [Join, merged, Exit].
C2_BatchingCorrect ==
  C2_AdjacentMerged /\ C2_NoMergeAcrossJoinExit /\ C2_Scenario

\* C3: every swap step of the input appears in some element of the sequence
\* batchSwapActions returns.
C3_EverySwapStepReturned ==
  op = "batchSwapActions" =>
    \A k \in 1..Len(actions) :
      IsSwap(actions[k]) => \E j \in 1..Len(result) : k \in StepsOf(result[j])

\* C8: batchSwapActions applied to its own output returns that output.
C8_BatchIdempotent ==
  op = "batchSwapActions twice" => pass2 = result

(***************************************************************************)
(* Reference allocation and classification, helpers.ts 15-104              *)
(***************************************************************************)
ActionSteps == {"Direct", "TokenIn", "TokenOut", "Middle"}
ActionTypes == {"BatchSwap", "Join", "Exit"}
Indices == 0..MaxIndex

\* A BigNumber is a prefix and a value: "none" for a plain amount,
\* "chained" for a number carrying the chained-reference prefix.
Literal(n) == [prefix |-> "none", value |-> n]

\* Relayer.toChainedReference: the prefix of chained references plus the key.
toChainedReference(key) == [prefix |-> "chained", value |-> key]

\* BigNumber.toString: the string that writes the number.
BigNumberToString(b) == [str |-> b]

\* the literal amounts handed to getActionAmount, as strings
Amounts == {BigNumberToString(Literal(0)), BigNumberToString(Literal(1000000))}

\* {} as OutputReference
EmptyRef == [empty |-> TRUE]

\* getActionAmount with every Middle step chained, whatever the action type.
getActionAmountAnyMiddle(amount, actionType, actionStep, key) ==
  IF actionStep = "TokenOut" \/ actionStep = "Middle"
  THEN BigNumberToString(toChainedReference(key - 1))
  ELSE amount

getActionAmount(amount, actionType, actionStep, key) ==
  IF \/ actionStep = "TokenOut"
     \/ (actionStep = "Middle" /\ actionType = "Join")
     \/ (actionStep = "Middle" /\ actionType = "Exit")
  THEN BigNumberToString(toChainedReference(key - 1))
  ELSE amount

getOutputRef(key, index) == [index |-> index, key |-> toChainedReference(key)]

\* getActionOutputRef that allocates without advancing the counter.
getActionOutputRefNoIncrement(actionStep, tokenOutIndex, key) ==
  IF actionStep = "TokenIn" \/ actionStep = "Middle"
  THEN <<getOutputRef(key, tokenOutIndex), key>>
  ELSE <<EmptyRef, key>>

\* getActionOutputRef that allocates for the first step of a chain only.
getActionOutputRefTokenInOnly(actionStep, tokenOutIndex, key) ==
  IF actionStep = "TokenIn"
  THEN <<getOutputRef(key, tokenOutIndex), key + 1>>
  ELSE <<EmptyRef, key>>

getActionOutputRef(actionStep, tokenOutIndex, key) ==
  IF actionStep = "TokenIn" \/ actionStep = "Middle"
  THEN <<getOutputRef(key, tokenOutIndex), key + 1>>
  ELSE <<EmptyRef, key>>

\* getActionStep with the Direct test made last instead of first.
getActionStepDirectLast(tokenInIndex, tokenOutIndex, tokenInIndexAction, tokenOutIndexAction) ==
  IF tokenInIndexAction = tokenInIndex THEN "TokenIn"
  ELSE IF tokenOutIndexAction = tokenOutIndex THEN "TokenOut"
  ELSE IF tokenInIndexAction = tokenInIndex /\ tokenOutIndexAction = tokenOutIndex
  THEN "Direct"
  ELSE "Middle"

getActionStep(tokenInIndex, tokenOutIndex, tokenInIndexAction, tokenOutIndexAction) ==
  IF tokenInIndexAction = tokenInIndex /\ tokenOutIndexAction = tokenOutIndex
  THEN "Direct"
  ELSE IF tokenInIndexAction = tokenInIndex THEN "TokenIn"
  ELSE IF tokenOutIndexAction = tokenOutIndex THEN "TokenOut"
  ELSE "Middle"

OrderIdle == actions = <<>> /\ op = "none" /\ result = <<>> /\ pass2 = <<>>

(***************************************************************************)
(* SpecRef: one run threading the key counter through getActionOutputRef   *)
(***************************************************************************)
InitRef ==
  /\ initKey \in 0..MaxInitKey
  /\ opRefKey = initKey
  /\ steps = <<>>
  /\ refs = <<>>
  /\ last = [fn |-> "none"]
  /\ OrderIdle
  /\ SimIdle

\* [opRef, opRefKey] = getActionOutputRef(actionStep, tokenOutIndex, opRefKey)
AllocateOutputRef ==
  \E actionStep \in ActionSteps, tokenOutIndex \in Indices :
    LET r == getActionOutputRef(actionStep, tokenOutIndex, opRefKey) IN
    /\ Len(steps) < MaxSteps
    /\ steps' = Append(steps, actionStep)
    /\ refs' = Append(refs, r[1])
    /\ opRefKey' = r[2]
    /\ last' = [fn |-> "getActionOutputRef", actionStep |-> actionStep,
                tokenOutIndex |-> tokenOutIndex, opRefKey |-> opRefKey, ret |-> r]
    /\ UNCHANGED <<initKey, orderVars, simVars>>

NextRef == AllocateOutputRef

SpecRef == InitRef /\ [][NextRef]_vars

(***************************************************************************)
(* SpecHelpers: getActionStep and getActionAmount applied to every bounded *)
(* argument list                                                           *)
(***************************************************************************)
StepCalls ==
  [fn : {"getActionStep"}, tokenInIndex : Indices, tokenOutIndex : Indices,
   tokenInIndexAction : Indices, tokenOutIndexAction : Indices, returned : {FALSE}]

AmountCalls ==
  [fn : {"getActionAmount"}, amount : Amounts, actionType : ActionTypes,
   actionStep : ActionSteps, opRefKey : 0..MaxInitKey, returned : {FALSE}]

InitHelpers ==
  /\ last \in StepCalls \cup AmountCalls
  /\ initKey = 0 /\ opRefKey = 0 /\ steps = <<>> /\ refs = <<>>
  /\ OrderIdle
  /\ SimIdle

ClassifyStep ==
  /\ last.fn = "getActionStep" /\ ~last.returned
  /\ last' = [fn |-> last.fn, tokenInIndex |-> last.tokenInIndex,
              tokenOutIndex |-> last.tokenOutIndex,
              tokenInIndexAction |-> last.tokenInIndexAction,
              tokenOutIndexAction |-> last.tokenOutIndexAction,
              returned |-> TRUE,
              ret |-> getActionStep(last.tokenInIndex, last.tokenOutIndex,
                                    last.tokenInIndexAction, last.tokenOutIndexAction)]
  /\ UNCHANGED <<initKey, opRefKey, steps, refs, orderVars, simVars>>

ComputeAmount ==
  /\ last.fn = "getActionAmount" /\ ~last.returned
  /\ last' = [fn |-> last.fn, amount |-> last.amount, actionType |-> last.actionType,
              actionStep |-> last.actionStep, opRefKey |-> last.opRefKey,
              returned |-> TRUE,
              ret |-> getActionAmount(last.amount, last.actionType,
                                      last.actionStep, last.opRefKey)]
  /\ UNCHANGED <<initKey, opRefKey, steps, refs, orderVars, simVars>>

NextHelpers == ClassifyStep \/ ComputeAmount

SpecHelpers == InitHelpers /\ [][NextHelpers]_vars

(***************************************************************************)
(* Claims about reference allocation and classification                    *)
(***************************************************************************)
Allocating(step) == step \in {"TokenIn", "Middle"}

\* C4: threaded through getActionOutputRef, the key counter never decreases,
\* it equals its initial value plus the number of TokenIn and Middle steps
\* processed, and no two allocated output references carry the same key.
C4_CounterCounts ==
  /\ opRefKey = initKey + Cardinality({k \in 1..Len(steps) : Allocating(steps[k])})
  /\ Len(refs) = Len(steps)
  /\ \A i, j \in 1..Len(refs) :
       (i < j /\ refs[i] # EmptyRef /\ refs[j] # EmptyRef) => refs[i].key # refs[j].key

\* C4, with the counter never decreasing from one call to the next.
C4_KeyCounter == [](C4_CounterCounts) /\ [][opRefKey' >= opRefKey]_vars

\* A chain TokenIn, Middle, TokenOut: two references, two distinct keys.
C4_Witness ==
  /\ steps = <<"TokenIn", "Middle", "TokenOut">>
  /\ opRefKey = initKey + 2
  /\ refs[1] # EmptyRef /\ refs[2] # EmptyRef /\ refs[3] = EmptyRef
  /\ refs[1].key = toChainedReference(initKey)
  /\ refs[2].key = toChainedReference(initKey + 1)

\* C5: getActionOutputRef(step, tokenOutIndex, key) returns
\* ({index: tokenOutIndex, key: chainedRef(key)}, key + 1) exactly when step
\* is TokenIn or Middle, and (empty reference, key) when step is Direct or
\* TokenOut; (TokenOut, idx, 5) gives (empty, 5) and (Middle, 2, 5) gives
\* ({index: 2, key: chainedRef(5)}, 6).
C5_OutputRef ==
  last.fn = "getActionOutputRef" =>
    /\ last.actionStep \in {"TokenIn", "Middle"} <=>
         last.ret = <<[index |-> last.tokenOutIndex,
                       key |-> [prefix |-> "chained", value |-> last.opRefKey]], last.opRefKey + 1>>
    /\ last.actionStep \in {"Direct", "TokenOut"} <=> last.ret = <<EmptyRef, last.opRefKey>>
    /\ (last.actionStep = "TokenOut" /\ last.opRefKey = 5) => last.ret = <<EmptyRef, 5>>
    /\ (last.actionStep = "Middle" /\ last.tokenOutIndex = 2 /\ last.opRefKey = 5)
         => last.ret = <<[index |-> 2, key |-> [prefix |-> "chained", value |-> 5]], 6>>

\* getActionOutputRef(Middle, 2, 5) has been called.
C5_Witness ==
  /\ last.fn = "getActionOutputRef"
  /\ last.actionStep = "Middle" /\ last.tokenOutIndex = 2 /\ last.opRefKey = 5
  /\ opRefKey = 6

\* the string of the chained reference for a key
ChainedAmount(key) == [str |-> [prefix |-> "chained", value |-> key]]

C7_StepClassification ==
  (last.fn = "getActionStep" /\ last.returned) =>
    LET inMatch == last.tokenInIndexAction = last.tokenInIndex
        outMatch == last.tokenOutIndexAction = last.tokenOutIndex
    IN /\ last.ret \in ActionSteps
       /\ last.ret = "Direct" <=> (inMatch /\ outMatch)
       /\ last.ret = "TokenIn" <=> (inMatch /\ ~outMatch)
       /\ last.ret = "TokenOut" <=> (~inMatch /\ outMatch)
       /\ last.ret = "Middle" <=> (~inMatch /\ ~outMatch)

\* Both indices match and the call returned Direct.
C7_Witness ==
  /\ last.fn = "getActionStep" /\ last.returned
  /\ last.tokenInIndexAction = last.tokenInIndex
  /\ last.tokenOutIndexAction = last.tokenOutIndex
  /\ last.ret = "Direct"

(***************************************************************************)
(* Simulation.decodeResult, part_001 103-123                               *)
(***************************************************************************)
\* the decimal digits of a natural number
RECURSIVE Digits(_)
Digits(n) == IF n < 10 THEN <<n>> ELSE Append(Digits(n \div 10), n % 10)

\* BigNumber.toString of an integer: its sign and its decimal digits
DecimalString(n) == [neg |-> n < 0, digits |-> Digits(IF n < 0 THEN -n ELSE n)]

\* BigNumber.from of a decimal string
RECURSIVE DigitsValue(_)
DigitsValue(d) ==
  IF Len(d) = 0 THEN 0 ELSE 10 * DigitsValue(SubSeq(d, 1, Len(d) - 1)) + d[Len(d)]

ParseDecimal(str) == IF str.neg THEN -DigitsValue(str.digits) ELSE DigitsValue(str.digits)

\* The framing of a bytes[]: the element count, then each element as its
\* length and its bytes (what the remote simulator or the node sends).
RECURSIVE EncodeBytesArrayFrom(_, _)
EncodeBytesArrayFrom(items, k) ==
  IF k > Len(items) THEN <<>>
  ELSE <<Len(items[k])>> \o items[k] \o EncodeBytesArrayFrom(items, k + 1)

EncodeBytesArray(items) == <<Len(items)>> \o EncodeBytesArrayFrom(items, 1)

\* defaultAbiCoder.decode(['bytes[]'], result)[0]: the elements, or a throw
\* when the data ends before the array does.
RECURSIVE DecodeElements(_, _, _, _)
DecodeElements(data, pos, left, acc) ==
  IF left = 0 THEN [thrown |-> FALSE, items |-> acc]
  ELSE IF pos > Len(data) \/ pos + data[pos] > Len(data)
  THEN [thrown |-> TRUE, items |-> <<>>]
  ELSE DecodeElements(data, pos + 1 + data[pos], left - 1,
                      Append(acc, SubSeq(data, pos + 1, pos + data[pos])))

DecodeBytesArray(data) ==
  IF Len(data) = 0 THEN [thrown |-> TRUE, items |-> <<>>]
  ELSE DecodeElements(data, 2, data[1], <<>>)

\* defaultAbiCoder.decode(['uint256'], bytes): the big-endian value of the
\* first word; -1 stands for the throw on data shorter than a word.
RECURSIVE WordValue(_, _)
WordValue(bytes, n) ==
  IF n = 0 THEN 0 ELSE 256 * WordValue(bytes, n - 1) + bytes[n]

DecodeUint(bytes) == IF Len(bytes) < WordLen THEN -1 ELSE WordValue(bytes, WordLen)

Thrown(msg) == [thrown |-> TRUE, error |-> msg, amountsOut |-> <<>>,
                totalAmountOut |-> DecimalString(0)]

RECURSIVE DecodeLoop(_, _, _, _, _)
DecodeLoop(multicallResult, outputIndexes, k, amountsOut, totalAmountOut) ==
  IF k > Len(outputIndexes)
  THEN [thrown |-> FALSE, error |-> "", amountsOut |-> amountsOut,
        totalAmountOut |-> DecimalString(totalAmountOut)]
  ELSE LET outputIndex == outputIndexes[k] IN
    IF outputIndex + 1 > Len(multicallResult)
    THEN Thrown("decode")    \* multicallResult[outputIndex] is undefined
    ELSE LET value == DecodeUint(multicallResult[outputIndex + 1]) IN
      IF value < 0 THEN Thrown("decode")
      ELSE DecodeLoop(multicallResult, outputIndexes, k + 1,
                      Append(amountsOut, DecimalString(value)),
                      totalAmountOut + ParseDecimal(DecimalString(value)))

\* decodeResult reading the k-th sub-call result for the k-th output index.
decodeResultByPosition(returned, outputIndexes) ==
  LET decoded == DecodeBytesArray(returned) IN
  IF decoded.thrown THEN Thrown("decode")
  ELSE DecodeLoop(decoded.items, [k \in 1..Len(outputIndexes) |-> k - 1], 1, <<>>, 0)

decodeResult(returned, outputIndexes) ==
  LET decoded == DecodeBytesArray(returned) IN
  IF decoded.thrown THEN Thrown("decode")
  ELSE DecodeLoop(decoded.items, outputIndexes, 1, <<>>, 0)

(***************************************************************************)
(* Inputs and answers of the simulation dispatcher                         *)
(***************************************************************************)
SimulationTypes == {"Tenderly", "VaultModel", "Static"}

RECURSIVE Lists(_, _)
Lists(S, n) ==
  IF n = 0 THEN {<<>>}
  ELSE LET shorter == Lists(S, n - 1)
       IN shorter \cup {Append(l, x) : l \in {t \in shorter : Len(t) = n - 1}, x \in S}

ZeroWord == [p \in 1..WordLen |-> 0]

\* what one sub-call of the multicall may have returned: words, data
\* shorter than a word, data longer than a word
SubResults ==
  { ZeroWord,
    [ZeroWord EXCEPT ![WordLen] = 7],
    [ZeroWord EXCEPT ![1] = 1],
    [p \in 1..WordLen |-> 255],
    SubSeq(ZeroWord, 1, WordLen - 1),
    Append([ZeroWord EXCEPT ![WordLen] = 9], 3) }

\* what the simulator or the node answers: the sub-call results and the
\* bytes that carry them; or no return data at all
Responses ==
  {[results |-> r, bytes |-> EncodeBytesArray(r)] : r \in Lists(SubResults, MaxCalls)}
    \cup {[results |-> <<>>, bytes |-> <<>>]}

OutputIndexLists == Lists(0..(MaxCalls - 1), MaxOutputs)

PoolA == [address |-> "0xA", suffix |-> 1]
PoolB == [address |-> "0xB", suffix |-> 2]

\* getPoolAddress: the address a pool id starts with
getPoolAddress(poolId) == poolId.address

JoinRequest(pool) == [actionType |-> "Join", poolId |-> pool, swaps |-> <<>>]
ExitRequest(pool) == [actionType |-> "Exit", poolId |-> pool, swaps |-> <<>>]
SwapRequest(pool) ==
  [actionType |-> "BatchSwap", poolId |-> [address |-> "", suffix |-> 0],
   swaps |-> <<[poolId |-> pool]>>]

\* the request paths a caller supplies
Paths ==
  { <<JoinRequest(PoolA)>>,
    <<SwapRequest(PoolA), ExitRequest(PoolB)>>,
    <<JoinRequest(PoolA), SwapRequest(PoolB)>> }

Addresses == {"0xA", "0xB"}

\* the tokensIn argument (part_001 47): none, one or two input tokens
TokenLists == {<<>>, <<"0xT1">>, <<"0xT1", "0xT2">>}
DeltaValues == {-7, 0, 5}

\* what VaultModel.multicall answers: a delta for some of the addresses
DeltaMaps == UNION {[D -> DeltaValues] : D \in SUBSET Addresses}

IdleSim(vm) ==
  [pc |-> "idle", vaultModel |-> vm, simulationType |-> "none",
   multiRequests |-> <<>>, outputIndexes |-> <<>>, tokensIn |-> <<>>,
   io |-> <<>>, i |-> 0, deltas |-> <<>>,
   response |-> [results |-> <<>>, bytes |-> <<>>],
   amountsOut |-> <<>>, totalAmountOut |-> DecimalString(0), error |-> ""]

Throw(s, msg) == [s EXCEPT !.pc = "thrown", !.error = msg]

Return(s, amountsOut, totalAmountOut) ==
  [s EXCEPT !.pc = "returned", !.amountsOut = amountsOut,
            !.totalAmountOut = totalAmountOut]

\* return this.decodeResult(result, outputIndexes), part_001 59 and 96
ReturnDecoded(s, resp) ==
  LET d == decodeResult(resp.bytes, s.outputIndexes)
      t == [s EXCEPT !.response = resp]
  IN IF d.thrown THEN Throw(t, d.error) ELSE Return(t, d.amountsOut, d.totalAmountOut)

(***************************************************************************)
(* Simulation.simulateGeneralisedJoin, part_001 41-101, one invocation.    *)
(* Every await is a step of its own: the call goes out, the answer (or the *)
(* rejection) comes back.  sim.io lists the I/O operations started.        *)
(* sim.multiRequests is kept for the VaultModel case, sim.outputIndexes    *)
(* for the Tenderly and Static cases, sim.tokensIn for the Tenderly case:  *)
(* no other case reads them.  sim.deltas lists the replica's answers.      *)
(***************************************************************************)
InitSim ==
  /\ sim \in {IdleSim(vm) : vm \in BOOLEAN}
  /\ OrderIdle
  /\ RefIdle

\* Every operation sent a second time.
StartedTwice(s, io) == [s EXCEPT !.io = Append(Append(@, io), io)]

\* an awaited operation goes out
Started(s, io) == [s EXCEPT !.io = Append(@, io)]

\* case SimulationType.Tenderly: tenderlyHelper.simulateMulticall, which
\* first posts the balance and allowance overrides of all the input tokens
\* to encode-states in one request (part_000 30-35, 80-106).
CallTenderly ==
  /\ sim.pc = "idle"
  /\ \E outputIndexes \in OutputIndexLists, tokensIn \in TokenLists :
       sim' = Started([sim EXCEPT !.pc = "await encode-states",
                                  !.simulationType = "Tenderly",
                                  !.outputIndexes = outputIndexes,
                                  !.tokensIn = tokensIn],
                      [op |-> "POST encode-states", path |-> 0, isFirst |-> FALSE])
  /\ UNCHANGED <<orderVars, refVars>>

\* The encoded overrides (or none) arrive; the simulation is posted
\* (part_000 107-111, 38-65).
EncodeStatesReturns ==
  /\ sim.pc = "await encode-states"
  /\ sim' = Started([sim EXCEPT !.pc = "await simulate"],
                    [op |-> "POST simulate", path |-> 0, isFirst |-> FALSE])
  /\ UNCHANGED <<orderVars, refVars>>

\* The simulation's output arrives and is decoded (part_000 67-70,
\* part_001 59).
SimulateReturns ==
  /\ sim.pc = "await simulate"
  /\ \E resp \in Responses : sim' = ReturnDecoded(sim, resp)
  /\ UNCHANGED <<orderVars, refVars>>

\* case SimulationType.Static: signer.call (part_001 89-95)
CallStatic ==
  /\ sim.pc = "idle"
  /\ \E outputIndexes \in OutputIndexLists :
       sim' = Started([sim EXCEPT !.pc = "await signer.call",
                                  !.simulationType = "Static",
                                  !.outputIndexes = outputIndexes],
                      [op |-> "signer.call", path |-> 0, isFirst |-> FALSE])
  /\ UNCHANGED <<orderVars, refVars>>

\* The static call's return data arrives and is decoded (part_001 96).
SignerCallReturns ==
  /\ sim.pc = "await signer.call"
  /\ \E resp \in Responses : sim' = ReturnDecoded(sim, resp)
  /\ UNCHANGED <<orderVars, refVars>>

\* The root pool taken from the path's first request instead of its last.
RootPoolAddressFirstRequest(requests) ==
  LET firstRequest == requests[1]
      poolId == IF firstRequest.actionType \in {"Join", "Exit"}
                THEN firstRequest.poolId
                ELSE firstRequest.swaps[1].poolId
  IN getPoolAddress(poolId)

\* part_001 70-80: the address of the pool of the path's last request
RootPoolAddress(requests) ==
  LET lastRequest == requests[Len(requests)]
      poolId == IF lastRequest.actionType \in {"Join", "Exit"}
                THEN lastRequest.poolId
                ELSE lastRequest.swaps[1].poolId
  IN getPoolAddress(poolId)

\* Every path announced to the replica as the first one.
NextPathAlwaysFirst(s) ==
  IF s.i >= Len(s.multiRequests)
  THEN [s EXCEPT !.pc = "returned"]
  ELSE Started([s EXCEPT !.pc = "await vaultModel.multicall"],
               [op |-> "vaultModel.multicall", path |-> s.i, isFirst |-> TRUE])

\* The head of the loop over multiRequests.entries() (part_001 69, 81, 87):
\* the next path's replica call goes out, or the result is returned.
NextPath(s) ==
  IF s.i >= Len(s.multiRequests)
  THEN [s EXCEPT !.pc = "returned"]
  ELSE Started([s EXCEPT !.pc = "await vaultModel.multicall"],
               [op |-> "vaultModel.multicall", path |-> s.i, isFirst |-> s.i = 0])

\* case SimulationType.VaultModel (part_001 62-69)
CallVaultModel ==
  /\ sim.pc = "idle"
  /\ \E multiRequests \in Lists(Paths, MaxPaths) :
       LET s == [sim EXCEPT !.simulationType = "VaultModel",
                            !.multiRequests = multiRequests]
       IN sim' = IF ~s.vaultModel
                 THEN Throw(s, "Missing Vault Model Config.")
                 ELSE NextPath(s)
  /\ UNCHANGED <<orderVars, refVars>>

\* !bptOutDelta (part_001 83): a BigNumber is an object, and never falsy.
IsFalsy(bigNumber) == FALSE

\* The replica's deltas arrive (part_001 81-86).
MulticallReturns ==
  /\ sim.pc = "await vaultModel.multicall"
  /\ \E deltas \in DeltaMaps :
       LET rootPoolAddress == RootPoolAddress(sim.multiRequests[sim.i + 1])
           got == [sim EXCEPT !.deltas = Append(@, deltas)]
       IN
       sim' = IF rootPoolAddress \notin DOMAIN deltas
              THEN Throw(got, "TypeError")   \* deltas[rootPoolAddress] is undefined
              ELSE LET bptOutDelta == deltas[rootPoolAddress] * (-1) IN
                IF IsFalsy(bptOutDelta)
                THEN Throw(got, "No delta found for BPT out.")
                ELSE NextPath([got EXCEPT
                       !.amountsOut = Append(@, DecimalString(bptOutDelta)),
                       !.totalAmountOut = DecimalString(ParseDecimal(@) + bptOutDelta),
                       !.i = @ + 1])
  /\ UNCHANGED <<orderVars, refVars>>

\* An unsupported type falling back to the static call.
CallUnsupportedFallsBack ==
  /\ sim.pc = "idle"
  /\ sim' = Started([sim EXCEPT !.pc = "await signer.call",
                                !.simulationType = "Unsupported"],
                    [op |-> "signer.call", path |-> 0, isFirst |-> FALSE])
  /\ UNCHANGED <<orderVars, refVars>>

\* default: (part_001 98-99)
CallUnsupported ==
  /\ sim.pc = "idle"
  /\ sim' = Throw([sim EXCEPT !.simulationType = "Unsupported"],
                  "Simulation type not supported")
  /\ UNCHANGED <<orderVars, refVars>>

\* An awaited call rejects: the error goes to the caller as it is.
Rejected ==
  /\ sim.pc \in {"await encode-states", "await simulate", "await signer.call",
                 "await vaultModel.multicall"}
  /\ sim' = Throw(sim, "I/O error")
  /\ UNCHANGED <<orderVars, refVars>>

NextSim ==
  \/ CallTenderly \/ EncodeStatesReturns \/ SimulateReturns
  \/ CallStatic \/ SignerCallReturns
  \/ CallVaultModel \/ MulticallReturns
  \/ CallUnsupported
  \/ Rejected

SpecSim == InitSim /\ [][NextSim]_vars

(***************************************************************************)
(* Claims about the simulation dispatcher                                  *)
(***************************************************************************)
\* C9: a call with a simulation type that is none of Tenderly, VaultModel,
\* Static throws 'Simulation type not supported', and a VaultModel call
\* without a configured vault model throws 'Missing Vault Model Config.';
\* either way no I/O operation has been started and no result is returned.
C9_ConfigErrorsBeforeIO ==
  /\ (sim.pc # "idle" /\ sim.simulationType \notin SimulationTypes) =>
       /\ sim.pc = "thrown"
       /\ sim.error = "Simulation type not supported"
       /\ sim.io = <<>>
  /\ (sim.pc # "idle" /\ sim.simulationType = "VaultModel" /\ ~sim.vaultModel) =>
       /\ sim.pc = "thrown"
       /\ sim.error = "Missing Vault Model Config."
       /\ sim.io = <<>>

\* The call with an unsupported type has thrown.
C9_Witness ==
  /\ sim.pc = "thrown"
  /\ sim.simulationType = "Unsupported"
  /\ sim.error = "Simulation type not supported"

RECURSIVE SeqSum(_)
SeqSum(q) == IF Len(q) = 0 THEN 0 ELSE q[Len(q)] + SeqSum(SubSeq(q, 1, Len(q) - 1))

\* the unsigned integer the first word of a byte string writes, big-endian
UintOf(bytes) == SeqSum([p \in 1..WordLen |-> bytes[p] * 256 ^ (WordLen - p)])

\* str is the decimal string of the natural number n
Denotes(str, n) ==
  /\ ~str.neg
  /\ Len(str.digits) >= 1
  /\ \A p \in 1..Len(str.digits) : str.digits[p] \in 0..9
  /\ Len(str.digits) > 1 => str.digits[1] # 0
  /\ SeqSum([p \in 1..Len(str.digits) |->
               str.digits[p] * 10 ^ (Len(str.digits) - p)]) = n

\* C10: whichever of the Tenderly and the Static strategy returns, the
\* result is fixed by the returned sub-call results and the output indexes
\* alone: amountsOut has one entry per output index, in the supplied order,
\* each the unsigned integer of the sub-call result at that index, and
\* totalAmountOut is the sum of the entries.
C10_DecodedResult ==
  (sim.pc = "returned" /\ sim.simulationType \in {"Tenderly", "Static"}) =>
    LET r == sim.response.results
        idx == sim.outputIndexes
    IN /\ Len(sim.amountsOut) = Len(idx)
       /\ \A k \in 1..Len(idx) :
            /\ idx[k] + 1 <= Len(r)
            /\ Len(r[idx[k] + 1]) >= WordLen
            /\ Denotes(sim.amountsOut[k], UintOf(r[idx[k] + 1]))
       /\ Denotes(sim.totalAmountOut,
                  SeqSum([k \in 1..Len(sim.amountsOut) |->
                            ParseDecimal(sim.amountsOut[k])]))

\* The static call returned two different amounts, read in the order of
\* the output indexes <<1, 0>>.
C10_Witness ==
  /\ sim.pc = "returned"
  /\ sim.simulationType = "Static"
  /\ sim.outputIndexes = <<1, 0>>
  /\ Len(sim.amountsOut) = 2
  /\ sim.amountsOut[1] = [neg |-> FALSE, digits |-> <<7>>]
  /\ ParseDecimal(sim.amountsOut[2]) > 255
  /\ ParseDecimal(sim.totalAmountOut) = 7 + ParseDecimal(sim.amountsOut[2])

\* the address of the pool a path ends in: the poolId of its last request
\* for a Join or an Exit, the poolId of its first swap for a BatchSwap
RootOf(path) ==
  LET lastRequest == path[Len(path)] IN
  CASE lastRequest.actionType = "Join" -> lastRequest.poolId.address
    [] lastRequest.actionType = "Exit" -> lastRequest.poolId.address
    [] lastRequest.actionType = "BatchSwap" -> lastRequest.swaps[1].poolId.address

\* str is the decimal string of the integer n
DenotesInt(str, n) ==
  IF n < 0
  THEN str.neg /\ Denotes([neg |-> FALSE, digits |-> str.digits], -n)
  ELSE Denotes(str, n)

\* C11: a VaultModel call that returns gives amountsOut one entry per
\* request path, in caller order, the entry of a path being the negated
\* delta the replica reported for the path's root pool address, and
\* totalAmountOut the sum of the entries.
C11_VaultModelAmounts ==
  (sim.pc = "returned" /\ sim.simulationType = "VaultModel") =>
    LET n == Len(sim.multiRequests) IN
    /\ Len(sim.amountsOut) = n
    /\ Len(sim.deltas) = n
    /\ \A k \in 1..n :
         /\ RootOf(sim.multiRequests[k]) \in DOMAIN sim.deltas[k]
         /\ DenotesInt(sim.amountsOut[k], 0 - sim.deltas[k][RootOf(sim.multiRequests[k])])
    /\ DenotesInt(sim.totalAmountOut,
                  SeqSum([k \in 1..Len(sim.amountsOut) |-> ParseDecimal(sim.amountsOut[k])]))

\* Two paths returned: one ending in an Exit of pool B with delta -7, one
\* ending in a BatchSwap whose first swap is in pool B with delta 5, the
\* replica reporting other deltas for pool A.
C11_Witness ==
  /\ sim.pc = "returned" /\ sim.simulationType = "VaultModel"
  /\ sim.multiRequests = <<<<SwapRequest(PoolA), ExitRequest(PoolB)>>,
                           <<JoinRequest(PoolA), SwapRequest(PoolB)>>>>
  /\ sim.deltas = <<[a \in Addresses |-> IF a = "0xB" THEN -7 ELSE 5],
                    [a \in Addresses |-> IF a = "0xB" THEN 5 ELSE 0]>>
  /\ sim.amountsOut = <<[neg |-> FALSE, digits |-> <<7>>], [neg |-> TRUE, digits |-> <<5>>]>>
  /\ sim.totalAmountOut = [neg |-> FALSE, digits |-> <<2>>]

\* The replica's answer for the k-th path has no entry for its root pool.
MissingDelta(k) ==
  /\ k <= Len(sim.deltas)
  /\ RootOf(sim.multiRequests[k]) \notin DOMAIN sim.deltas[k]

\* C12: a path whose root pool address has no entry in the replica's deltas
\* makes the VaultModel call throw 'No delta found for BPT out.'; no amount
\* is pushed for that path and no result is returned.
C12_NoDeltaError ==
  \A k \in 1..Len(sim.multiRequests) :
    (sim.simulationType = "VaultModel" /\ MissingDelta(k)) =>
      /\ sim.pc = "thrown"
      /\ Len(sim.amountsOut) < k
      /\ sim.error = "No delta found for BPT out."

EncodeStatesPost == [op |-> "POST encode-states", path |-> 0, isFirst |-> FALSE]
SimulatePost == [op |-> "POST simulate", path |-> 0, isFirst |-> FALSE]
SignerCall == [op |-> "signer.call", path |-> 0, isFirst |-> FALSE]
Awaiting ==
  sim.pc \in {"await encode-states", "await simulate", "await signer.call",
              "await vaultModel.multicall"}

\* C13 as stated: an invocation that selected a supported strategy and
\* returned has performed exactly one blocking I/O operation.
C13_ExactlyOneIO ==
  (sim.pc = "returned" /\ sim.simulationType \in SimulationTypes) =>
    Len(sim.io) = 1

\* C13: an invocation that selected a supported strategy performs, up to its
\* return, one chain read under Static, two HTTP round trips (encode-states,
\* then simulate) under Tenderly whatever the number of input tokens, and as
\* many replica calls as there are request paths under VaultModel; an
\* invocation that fails has started no more than that, and no operation is
\* started twice.
C13_IOPerStrategy ==
  /\ sim.simulationType = "Static" =>
       sim.io = <<SignerCall>>
  /\ sim.simulationType = "Tenderly" =>
       /\ sim.io \in {<<EncodeStatesPost>>, <<EncodeStatesPost, SimulatePost>>}
       /\ sim.pc = "await encode-states" => Len(sim.io) = 1
       /\ sim.pc \in {"await simulate", "returned"} => Len(sim.io) = 2
  /\ sim.simulationType = "VaultModel" =>
       /\ \A k \in 1..Len(sim.io) : sim.io[k].op = "vaultModel.multicall"
       /\ Len(sim.io) <= Len(sim.multiRequests)
       /\ sim.pc = "returned" => Len(sim.io) = Len(sim.multiRequests)
       /\ Len(sim.io) = Len(sim.deltas) + (IF Awaiting THEN 1 ELSE 0)
            \/ (sim.pc = "thrown" /\ sim.error = "I/O error"
                  /\ Len(sim.io) = Len(sim.deltas) + 1)

C13_Witness ==
  /\ sim.pc = "returned"
  /\ sim.simulationType = "Tenderly"
  /\ sim.tokensIn = <<"0xT1", "0xT2">>
  /\ sim.io = <<EncodeStatesPost, SimulatePost>>
  /\ Len(sim.amountsOut) = 2

\* the replica call for the k-th path of the invocation (counted from 1)
ReplicaCall(k) ==
  [op |-> "vaultModel.multicall", path |-> k - 1, isFirst |-> (k = 1)]

\* C14: under VaultModel the k-th replica call is the call for the k-th path
\* of the caller's list, flagged as first for k = 1 only; it is started only
\* once the answers to all the calls before it have arrived, and a returned
\* invocation has called the replica once for every path.
C14_ReplicaPathOrder ==
  sim.simulationType = "VaultModel" =>
    /\ \A k \in 1..Len(sim.io) :
         /\ sim.io[k] = ReplicaCall(k)
         /\ Len(sim.deltas) >= k - 1
         /\ Len(sim.amountsOut) >= k - 1
    /\ sim.pc = "await vaultModel.multicall" =>
         /\ Len(sim.io) = sim.i + 1
         /\ Len(sim.deltas) = sim.i
    /\ sim.pc = "returned" =>
         /\ Len(sim.io) = Len(sim.multiRequests)
         /\ Len(sim.deltas) = Len(sim.multiRequests)

\* C14: the call for path k is not started while the call for path k-1 is
\* outstanding: each step starts at most one call, and only in the step in
\* which the previous answer arrives (or the invocation begins).
C14_OneAtATime ==
  [][(sim'.simulationType = "VaultModel" /\ Len(sim'.io) > Len(sim.io)) =>
       /\ Len(sim'.io) = Len(sim.io) + 1
       /\ Len(sim'.deltas) = Len(sim.io)
       /\ sim'.pc = "await vaultModel.multicall"]_vars

C14_ReplicaCalls == []C14_ReplicaPathOrder /\ C14_OneAtATime

C14_Witness ==
  /\ sim.pc = "returned"
  /\ sim.simulationType = "VaultModel"
  /\ sim.multiRequests = << <<JoinRequest(PoolA)>>, <<SwapRequest(PoolA), ExitRequest(PoolB)>> >>
  /\ sim.io = <<ReplicaCall(1), ReplicaCall(2)>>
  /\ sim.io[1].isFirst /\ ~sim.io[2].isFirst
  /\ Len(sim.deltas) = 2

====
